---- MODULE Spec2Model ----
(***************************************************************************)
(* Model of rust-mcp-utils: the tool dispatch and output coercion layer    *)
(* (crates/mcp-utils/src/tool.rs), the tool registry generated by          *)
(* setup_tools! (tool_box.rs), the request handler and server bootstrap    *)
(* (server.rs) and the command line glue (crates/mcp-cli-builder).         *)
(***************************************************************************)
EXTENDS Integers, Sequences, FiniteSets, TLC

(***************************************************************************)
(* Bounds of the model.                                                    *)
(***************************************************************************)
\* largest number of fields of a struct output, and of elements of a Vec output
MaxFields == 2

\* largest number of tools listed in setup_tools!
MaxTools == 2

\* the sequences of elements of S of length at most n
RECURSIVE SeqsUpTo(_, _)
SeqsUpTo(S, n) ==
    IF n = 0 THEN {<<>>}
    ELSE LET shorter == SeqsUpTo(S, n - 1) IN
         shorter \cup {Append(q, x) : q \in {p \in shorter : Len(p) = n - 1}, x \in S}

(***************************************************************************)
(* serde_json::Value.  A value is a record of one shape: t is the variant, *)
(* n the number of a Number, s the text of a String, items the elements of *)
(* an Array, fields the entries of an Object (serde_json::Map: one entry   *)
(* per key).                                                               *)
(***************************************************************************)
JNull == [t |-> "Null", n |-> 0, s |-> "", items |-> <<>>, fields |-> {}]

JNumber(num) == [t |-> "Number", n |-> num, s |-> "", items |-> <<>>, fields |-> {}]

JString(lit) == [t |-> "String", n |-> 0, s |-> lit, items |-> <<>>, fields |-> {}]

JArray(elems) == [t |-> "Array", n |-> 0, s |-> "", items |-> elems, fields |-> {}]

JObject(map) == [t |-> "Object", n |-> 0, s |-> "", items |-> <<>>, fields |-> map]

\* serde_json::Map::new()
MapNew == {}

\* serde_json::Map::insert: the entry of an existing key is replaced
MapInsert(map, key, value) ==
    {e \in map : e.k # key} \cup {[k |-> key, v |-> value]}

(***************************************************************************)
(* Values returned by a tool's call, before coercion.  r is the Rust type  *)
(* of the value: the string types, i32, the unit type, Vec, a struct with  *)
(* named fields, a map keyed by tuples, and the two sides of a Result.     *)
(***************************************************************************)
StrTypes == {"String", "&String", "&str"}

RStr(ty, lit) == [r |-> ty, n |-> 0, s |-> lit, items |-> <<>>, fields |-> {}]

RInt(num) == [r |-> "i32", n |-> num, s |-> "", items |-> <<>>, fields |-> {}]

RUnit == [r |-> "()", n |-> 0, s |-> "", items |-> <<>>, fields |-> {}]

\* an f64 (x.c its class, x.v its value when finite)
RF64(x) == [r |-> "f64", n |-> x.v, s |-> x.c, items |-> <<>>, fields |-> {}]

RVec(elems) == [r |-> "Vec", n |-> 0, s |-> "", items |-> elems, fields |-> {}]

RStruct(fs) == [r |-> "struct", n |-> 0, s |-> "", items |-> <<>>, fields |-> fs]

\* HashMap<(u8, u8), _>: its keys are not strings
RTupleMap(elems) ==
    [r |-> "HashMap<(u8,u8),_>", n |-> 0, s |-> "", items |-> elems, fields |-> {}]

ROk(x) == [r |-> "Ok", n |-> 0, s |-> "", items |-> <<x>>, fields |-> {}]

RErr(e) == [r |-> "Err", n |-> 0, s |-> "", items |-> <<e>>, fields |-> {}]

(***************************************************************************)
(* Result<_, ToolError> of the two coercions.                              *)
(***************************************************************************)
ToolErrorFrom(text) == [display |-> text]

NoToolError == [display |-> ""]

TextOk(text) == [ok |-> TRUE, text |-> text, err |-> NoToolError]

TextErr(e) == [ok |-> FALSE, text |-> "", err |-> e]

ValueOk(value) == [ok |-> TRUE, value |-> value, err |-> NoToolError]

ValueErr(e) == [ok |-> FALSE, value |-> JNull, err |-> e]

\* IntoTextToolResult with the failure side of a Result taken as text
IntoTextToolResult_ErrAsText(out) ==
    IF out.r \in StrTypes THEN TextOk(out.s) ELSE TextOk(out.items[1].s)

\* IntoTextToolResult::result for String, &String, &str and Result<T, E>
IntoTextToolResult(out) ==
    IF out.r \in StrTypes THEN TextOk(out.s)
    ELSE IF out.r = "Ok" THEN TextOk(out.items[1].s)
    ELSE TextErr(ToolErrorFrom(out.items[1].s))

\* serde_json::to_value: Ok(value), or Err(description) when the value holds
\* a map with a key that is not a string
RECURSIVE SerializeFails(_)
SerializeFails(out) ==
    \/ out.r = "HashMap<(u8,u8),_>" /\ Len(out.items) > 0
    \/ \E i \in DOMAIN out.items : SerializeFails(out.items[i])
    \/ \E f \in out.fields : SerializeFails(f.v)

RECURSIVE ToValue(_)
ToValue(out) ==
    CASE out.r \in StrTypes -> JString(out.s)
      [] out.r = "i32" -> JNumber(out.n)
      [] out.r = "f64" -> IF out.s = "finite" THEN JNumber(out.n) ELSE JNull
      [] out.r = "()" -> JNull
      [] out.r = "Vec" -> JArray([i \in DOMAIN out.items |-> ToValue(out.items[i])])
      [] out.r = "struct" -> JObject({[k |-> f.k, v |-> ToValue(f.v)] : f \in out.fields})
      [] out.r = "HashMap<(u8,u8),_>" -> JObject(MapNew)
      [] out.r = "Ok" -> JObject(MapInsert(MapNew, "Ok", ToValue(out.items[1])))
      [] out.r = "Err" -> JObject(MapInsert(MapNew, "Err", ToValue(out.items[1])))

\* IntoStructuredToolResult with a serialization failure replaced by Null
IntoStructuredToolResult_Lossy(out) ==
    IF SerializeFails(out) THEN ValueOk(JNull) ELSE ValueOk(ToValue(out))

\* IntoStructuredToolResult::result for every T: Serialize
IntoStructuredToolResult(out) ==
    IF SerializeFails(out)
    THEN ValueErr(ToolErrorFrom("key must be a string"))
    ELSE ValueOk(ToValue(out))

(***************************************************************************)
(* Result<CallToolResult, CallToolError>.                                  *)
(***************************************************************************)
NoContent == [some |-> FALSE, map |-> MapNew]

NoCallToolError == [source |-> "", message |-> ""]

\* CallToolError::new(err): the boxed error, by its type and its Display
CallToolErrorNew(source, message) == [source |-> source, message |-> message]

\* CallToolResult::text_content(blocks)
CallToolResultTextContent(blocks) ==
    [content |-> blocks, structured_content |-> NoContent]

\* CallToolResult::with_structured_content(map)
WithStructuredContent(res, map) ==
    [res EXCEPT !.structured_content = [some |-> TRUE, map |-> map]]

CallOk(res) == [ok |-> TRUE, result |-> res, error |-> NoCallToolError]

CallErr(e) == [ok |-> FALSE, result |-> CallToolResultTextContent(<<>>), error |-> e]

\* TextContent::new(text, None, None)
TextContentNew(text) == [type |-> "text", text |-> text]

\* impl CustomTextTool for T (TextTool::call has returned out)
CustomTextToolCall(out) ==
    LET result == IntoTextToolResult(out) IN
    IF result.ok
    THEN CallOk(CallToolResultTextContent(<<TextContentNew(result.text)>>))
    ELSE CallErr(CallToolErrorNew("ToolError", result.err.display))

\* impl AsyncCustomTextTool for T (the awaited AsyncTextTool::call gave out)
AsyncCustomTextToolCall(out) ==
    LET result == IntoTextToolResult(out) IN
    IF result.ok
    THEN CallOk(CallToolResultTextContent(<<TextContentNew(result.text)>>))
    ELSE CallErr(CallToolErrorNew("ToolError", result.err.display))

\* CustomStructuredTool with every value inserted under "result"
CustomStructuredToolCall_AlwaysWrap(out) ==
    LET value == IntoStructuredToolResult(out) IN
    IF value.ok
    THEN CallOk(WithStructuredContent(
                  CallToolResultTextContent(<<>>),
                  MapInsert(MapNew, "result", value.value)))
    ELSE CallErr(CallToolErrorNew("ToolError", value.err.display))

\* impl CustomStructuredTool for T: an Object's map as it is, any other
\* value inserted under "result" into a new map
CustomStructuredToolCall(out) ==
    LET value == IntoStructuredToolResult(out) IN
    IF value.ok
    THEN CallOk(WithStructuredContent(
                  CallToolResultTextContent(<<>>),
                  IF value.value.t = "Object"
                  THEN value.value.fields
                  ELSE MapInsert(MapNew, "result", value.value)))
    ELSE CallErr(CallToolErrorNew("ToolError", value.err.display))

\* AsyncCustomStructuredTool with every value inserted under "result"
AsyncCustomStructuredToolCall_AlwaysWrap(out) ==
    LET value == IntoStructuredToolResult(out) IN
    IF value.ok
    THEN CallOk(WithStructuredContent(
                  CallToolResultTextContent(<<>>),
                  MapInsert(MapNew, "result", value.value)))
    ELSE CallErr(CallToolErrorNew("ToolError", value.err.display))

\* impl AsyncCustomStructuredTool for T
AsyncCustomStructuredToolCall(out) ==
    LET value == IntoStructuredToolResult(out) IN
    IF value.ok
    THEN CallOk(WithStructuredContent(
                  CallToolResultTextContent(<<>>),
                  IF value.value.t = "Object"
                  THEN value.value.fields
                  ELSE MapInsert(MapNew, "result", value.value)))
    ELSE CallErr(CallToolErrorNew("ToolError", value.err.display))

\* CustomToolInner: the four shapes
Kinds == {"text", "structured", "async_text", "async_structured"}

IsAsync(kind) == kind \in {"async_text", "async_structured"}

IsText(kind) == kind \in {"text", "async_text"}

\* CustomTool::call: the match on self.inner, once the callable has returned out
CustomToolCall(kind, out) ==
    CASE kind = "text" -> CustomTextToolCall(out)
      [] kind = "structured" -> CustomStructuredToolCall(out)
      [] kind = "async_text" -> AsyncCustomTextToolCall(out)
      [] kind = "async_structured" -> AsyncCustomStructuredToolCall(out)

(***************************************************************************)
(* The outputs a tool can return.  A text tool's Output implements         *)
(* IntoTextToolResult: a string type, or a Result of string types.  A      *)
(* structured tool's Output is any Serialize value.                        *)
(***************************************************************************)
Texts == {"", "hi"}

FieldKeys == {"a", "b", "result"}

Strs == {RStr(ty, lit) : ty \in StrTypes, lit \in Texts}

TextOutputs == Strs \cup {ROk(x) : x \in Strs} \cup {RErr(x) : x \in Strs}

Atoms == {RUnit, RInt(5), RStr("String", "hi"),
          RTupleMap(<<>>), RTupleMap(<<RInt(5)>>)}

\* the structs with at most MaxFields fields, each field an atom
Structs ==
    {RStruct({[k |-> key, v |-> f[key]] : key \in keys}) :
        <<keys, f>> \in UNION {{<<ks, g>> : g \in [ks -> Atoms]} :
                        ks \in {c \in SUBSET FieldKeys : Cardinality(c) <= MaxFields}}}

Vecs == {RVec(q) : q \in SeqsUpTo(Atoms, MaxFields)}

Plain == Atoms \cup {RStruct({[k |-> "a", v |-> RInt(5)], [k |-> "b", v |-> RUnit]})}

StructuredOutputs ==
    Atoms \cup Structs \cup Vecs \cup {ROk(x) : x \in Plain} \cup {RErr(x) : x \in Plain}
        \cup TextOutputs

OutputsOf(kind) == IF IsText(kind) THEN TextOutputs ELSE StructuredOutputs

(***************************************************************************)
(* The declared tools.  setup_tools!(Tools, [kind(Struct), ...]) lists     *)
(* structs that carry #[mcp_tool(name, title, description)]; the struct    *)
(* names are distinct (they become the variants of one enum), the tool     *)
(* names are whatever the attributes say.  Each struct here has one input  *)
(* field, read from the call's arguments by its derived Deserialize.       *)
(***************************************************************************)
Some(text) == [some |-> TRUE, s |-> text]

None == [some |-> FALSE, s |-> ""]

ToolIds == {"ExampleTool", "AnotherTool", "GreetTool", "ExampleToolV2"}

ToolStruct(id) ==
    CASE id = "ExampleTool" ->
            [id |-> id, kind |-> "text", name |-> "example_tool",
             title |-> Some("Example Tool"),
             description |-> Some("An example tool for demonstration"),
             field |-> "message", type |-> "String", required |-> TRUE]
      [] id = "AnotherTool" ->
            [id |-> id, kind |-> "structured", name |-> "another_tool",
             title |-> None,
             description |-> Some("A tool that doubles a number"),
             field |-> "value", type |-> "Number", required |-> TRUE]
      [] id = "GreetTool" ->
            [id |-> id, kind |-> "async_text", name |-> "greet",
             title |-> None, description |-> None,
             field |-> "message", type |-> "String", required |-> FALSE]
      [] id = "ExampleToolV2" ->
            [id |-> id, kind |-> "async_structured", name |-> "example_tool",
             title |-> Some("Example Tool"), description |-> None,
             field |-> "message", type |-> "String", required |-> FALSE]
      [] id = "SumTool" ->
            [id |-> id, kind |-> "structured", name |-> "sum",
             title |-> Some("Sum numbers together"),
             description |-> Some("Calculates the sum of a list of numbers."),
             field |-> "values", type |-> "Array", required |-> TRUE]
      [] OTHER ->
            [id |-> id, kind |-> "text", name |-> id,
             title |-> None, description |-> Some("A tool"),
             field |-> "message", type |-> "String", required |-> TRUE]

\* $tool::tool(): the descriptor of a declared tool
ToolDescriptor(id) ==
    LET t == ToolStruct(id) IN
    [name |-> t.name, title |-> t.title, description |-> t.description,
     input |-> [field |-> t.field, type |-> t.type, required |-> t.required]]

\* the tool boxes that can be declared: at most MaxTools distinct structs
ToolBoxes ==
    {q \in SeqsUpTo(ToolIds, MaxTools) :
        \A i, j \in DOMAIN q : i # j => q[i] # q[j]}

\* ToolBox::get_tools: InnerTools::tools(), one descriptor per listed struct
GetTools(toolbox) == [i \in DOMAIN toolbox |-> ToolDescriptor(toolbox[i])]

(***************************************************************************)
(* Routing: TryFrom<CallToolRequestParams>.                                *)
(***************************************************************************)
NoArguments == [some |-> FALSE, map |-> MapNew]

SomeArguments(map) == [some |-> TRUE, map |-> map]

\* the arguments left as they came
GetOrInsertDefault_Untouched(arguments) == arguments

\* Option::get_or_insert_default on CallToolRequestParams::arguments
GetOrInsertDefault(arguments) ==
    IF arguments.some THEN arguments ELSE SomeArguments(MapNew)

NoInstance == [id |-> "", has |-> FALSE, n |-> 0, s |-> "", items |-> <<>>]

\* serde_json::from_value into the struct: its field is read from the map,
\* other keys are ignored
FromValue(id, map) ==
    LET t == ToolStruct(id)
        found == {e \in map : e.k = t.field}
        value == (CHOOSE e \in found : TRUE).v
    IN  IF found = {}
        THEN IF t.required
             THEN [ok |-> FALSE, tool |-> NoInstance,
                   message |-> "missing field " \o t.field]
             ELSE [ok |-> TRUE, tool |-> [NoInstance EXCEPT !.id = id], message |-> ""]
        ELSE IF /\ value.t = t.type
                /\ \A i \in DOMAIN value.items : value.items[i].t = "Number"
             THEN [ok |-> TRUE,
                   tool |-> [id |-> id, has |-> TRUE, n |-> value.n, s |-> value.s,
                             items |-> value.items],
                   message |-> ""]
             ELSE IF value.t = "Null" /\ ~t.required
                  THEN [ok |-> TRUE, tool |-> [NoInstance EXCEPT !.id = id],
                        message |-> ""]
                  ELSE [ok |-> FALSE, tool |-> NoInstance,
                        message |-> "invalid type: expected " \o t.type]

Routed(tool, steps) ==
    [status |-> "ok", tool |-> tool, error |-> NoCallToolError, steps |-> steps]

RouteErr(e, steps) ==
    [status |-> "err", tool |-> NoInstance, error |-> e, steps |-> steps]

RoutePanic(steps) ==
    [status |-> "panic", tool |-> NoInstance, error |-> NoCallToolError, steps |-> steps]

\* CallToolError::unknown_tool(name)
UnknownTool(name) == CallToolErrorNew("UnknownTool", "Unknown tool: " \o name)

\* rust_mcp_sdk::tool_box!: InnerTools::try_from.  The arguments are
\* unwrapped, then the first listed tool with the request's name
\* deserializes them; no listed tool with that name is the unknown tool.
InnerToolsTryFrom(toolbox, value) ==
    LET matches == {i \in DOMAIN toolbox : ToolStruct(toolbox[i]).name = value.name}
        first == CHOOSE i \in matches : \A j \in matches : i <= j
        parsed == FromValue(toolbox[first], value.arguments.map)
    IN  IF ~value.arguments.some THEN RoutePanic(<<"unwrap">>)
        ELSE IF matches = {} THEN RouteErr(UnknownTool(value.name), <<"resolve">>)
        ELSE IF parsed.ok THEN Routed(parsed.tool, <<"resolve", "deserialize">>)
        ELSE RouteErr(CallToolErrorNew("serde_json::Error", parsed.message),
                      <<"resolve", "deserialize">>)

\* TryFrom reporting every failure of the inner conversion as an unknown tool
TryFrom_UnknownOnly(toolbox, params) ==
    LET inner == InnerToolsTryFrom(toolbox,
                    [params EXCEPT !.arguments = GetOrInsertDefault(@)])
    IN  IF inner.status = "err"
        THEN RouteErr(UnknownTool(params.name), inner.steps)
        ELSE inner

\* setup_tools!: impl TryFrom<CallToolRequestParams> for the tool box
TryFrom(toolbox, params) ==
    InnerToolsTryFrom(toolbox,
                      [params EXCEPT !.arguments = GetOrInsertDefault(@)])

(***************************************************************************)
(* f64, shrunk to a format with two significant bits: the finite values    *)
(* are 0, 1 (subnormal) and m * 2^e with m in {2, 3} and e in               *)
(* 0..F64MaxExp, of either sign, counted in units of the smallest positive *)
(* value.  An addition is exact and then rounded to the nearest value,     *)
(* ties to the even mantissa; a result beyond the largest finite value by  *)
(* half a step or more overflows to an infinity.  Zeros carry no sign.     *)
(***************************************************************************)
F64MaxExp == 3

F64Max == 3 * 2^F64MaxExp

F64Magnitudes == {0, 1} \cup {m * 2^e : m \in {2, 3}, e \in 0..F64MaxExp}

F64(v) == [c |-> "finite", v |-> v]

F64Infinity == [c |-> "inf", v |-> 0]

F64NegInfinity == [c |-> "-inf", v |-> 0]

F64NaN == [c |-> "nan", v |-> 0]

\* f64::is_finite
IsFinite(x) == x.c = "finite"

\* round an exact result to the format
F64Round(exact) ==
    LET a == IF exact < 0 THEN 0 - exact ELSE exact
        top == 2^(F64MaxExp + 2)
        below == {m \in F64Magnitudes : m <= a}
        above == {m \in F64Magnitudes : m >= a}
        lo == CHOOSE m \in below : \A o \in below : o <= m
        hi == IF above = {} THEN top
              ELSE CHOOSE m \in above : \A o \in above : m <= o
        even(m) == m = 0 \/ \E e \in 1..(F64MaxExp + 2) : m = 2^e
        pick == IF a - lo < hi - a THEN lo
                ELSE IF a - lo > hi - a THEN hi
                ELSE IF even(lo) THEN lo ELSE hi
    IN  IF pick = top
        THEN IF exact < 0 THEN F64NegInfinity ELSE F64Infinity
        ELSE F64(IF exact < 0 THEN 0 - pick ELSE pick)

\* the + of f64
F64Add(x, y) ==
    CASE x.c = "nan" \/ y.c = "nan" -> F64NaN
      [] x.c = "finite" /\ y.c = "finite" -> F64Round(x.v + y.v)
      [] x.c = "finite" -> y
      [] y.c = "finite" -> x
      [] x.c = y.c -> x
      [] OTHER -> F64NaN

\* SumResult with its derived Serialize: a field that is None is skipped
SumResult(sum, error) ==
    RStruct((IF sum.some THEN {[k |-> "sum", v |-> RF64(sum.x)]} ELSE {})
            \cup (IF error.some
                  THEN {[k |-> "error", v |-> RStr("String", error.s)]} ELSE {}))

\* the for loop of SumTool::call from the i-th number on, sum being the
\* running sum
RECURSIVE SumToolLoop(_, _, _)
SumToolLoop(values, i, sum) ==
    IF i > Len(values)
    THEN SumResult([some |-> TRUE, x |-> sum], None)
    ELSE LET new_sum == F64Add(sum, values[i]) IN
         IF IsFinite(new_sum)
         THEN SumToolLoop(values, i + 1, new_sum)
         ELSE SumResult([some |-> FALSE, x |-> F64(0)],
                        Some("Infinite value detected"))

\* the sum of the first k numbers, added from left to right
RECURSIVE RunningSum(_, _)
RunningSum(values, k) ==
    IF k = 0 THEN F64(0) ELSE F64Add(RunningSum(values, k - 1), values[k])

\* SumTool::call without the is_finite test: the total, whatever it is
SumToolCall_Unchecked(values) ==
    SumResult([some |-> TRUE, x |-> RunningSum(values, Len(values))], None)

\* impl StructuredTool for SumTool
SumToolCall(values) == SumToolLoop(values, 1, F64(0))

\* setup_tools!: ToolBox::get_tool, the CustomTool of the routed struct
GetTool(tool) == [kind |-> ToolStruct(tool.id).kind, tool |-> tool]

\* the structs' own call: what the tool returns for its deserialized input
ToolCall(tool) ==
    CASE tool.id = "ExampleTool" -> RStr("String", "Processed: " \o tool.s)
      [] tool.id = "SumTool" ->
            SumToolCall([i \in DOMAIN tool.items |-> F64(tool.items[i].n)])
      [] tool.id = "AnotherTool" -> RInt(tool.n * 2)
      [] tool.id = "GreetTool" ->
            IF tool.has /\ tool.s # ""
            THEN ROk(RStr("String", "Hello, " \o tool.s))
            ELSE RErr(RStr("&str", "message is required"))
      [] tool.id = "ExampleToolV2" ->
            RStruct({[k |-> "message",
                      v |-> IF tool.has THEN RStr("String", tool.s) ELSE RUnit],
                     [k |-> "length", v |-> RInt(Len(tool.s))],
                     [k |-> "marks",
                      v |-> RTupleMap(IF tool.has /\ tool.s = ""
                                      THEN <<RInt(0)>> ELSE <<>>)]})

(***************************************************************************)
(* ServerConfig, ServerBuilder and the handshake payload.                  *)
(***************************************************************************)
DefaultTimeoutSecs == 60

\* impl Default for ServerConfig
ServerConfigDefault ==
    [name |-> "CARGO_PKG_NAME", title |-> "", version |-> "CARGO_PKG_VERSION",
     instructions |-> "", timeout |-> DefaultTimeoutSecs]

\* get_server_details announcing the tools capability whatever the catalog
GetServerDetails_AlwaysTools(config, toolbox) ==
    [server_info |->
        [name |-> config.name, version |-> config.version,
         title |-> IF config.title # "" THEN Some(config.title) ELSE None],
     capabilities |-> [tools |-> [some |-> TRUE, list_changed |-> None]],
     instructions |-> Some(config.instructions),
     protocol_version |-> "LATEST_PROTOCOL_VERSION"]

\* ServerBuilder::get_server_details
GetServerDetails(config, toolbox) ==
    [server_info |->
        [name |-> config.name, version |-> config.version,
         title |-> IF config.title # "" THEN Some(config.title) ELSE None],
     capabilities |->
        [tools |-> IF GetTools(toolbox) = <<>>
                   THEN [some |-> FALSE, list_changed |-> None]
                   ELSE [some |-> TRUE, list_changed |-> None]],
     instructions |-> Some(config.instructions),
     protocol_version |-> "LATEST_PROTOCOL_VERSION"]

NoRpcError == [ok |-> TRUE, message |-> ""]

\* McpServer::assert_server_request_capabilities: the tools methods need the
\* tools capability of the handshake payload
AssertServerRequestCapabilities(details, method) ==
    IF method \in {"tools/list", "tools/call"} /\ ~details.capabilities.tools.some
    THEN [ok |-> FALSE,
          message |-> "Server does not support tools (required for " \o method \o ")"]
    ELSE NoRpcError

\* const DEFAULT_PORT
DEFAULT_PORT == 8080

\* what ServerBuilder::start_stdio creates: StdioTransport::new(options) and
\* the server over get_server_details
StdioTransport(config, toolbox) ==
    [mode |-> "stdio", host |-> "", port |-> 0, timeout |-> config.timeout,
     details |-> GetServerDetails(config, toolbox)]

\* start_server binding the host as it was given, empty or not
HyperServer_HostAsGiven(config, toolbox, host, port) ==
    [mode |-> "http", host |-> host, port |-> port, timeout |-> config.timeout,
     details |-> GetServerDetails(config, toolbox)]

\* what ServerBuilder::start_server creates: HyperServerOptions { host, port,
\* transport_options } with an empty host replaced by 127.0.0.1
HyperServer(config, toolbox, host, port) ==
    [mode |-> "http",
     host |-> IF host # "" THEN host ELSE "127.0.0.1",
     port |-> port, timeout |-> config.timeout,
     details |-> GetServerDetails(config, toolbox)]

(***************************************************************************)
(* One CustomTool::call.  ctKind is the shape of the tool, ctOut the value *)
(* its callable returns (the callable closed over its arguments when the   *)
(* tool was constructed), ctPc the position of the call and ctRes what the *)
(* call returned.                                                          *)
(***************************************************************************)
VARIABLES ctKind, ctOut, ctPc, ctRes

(***************************************************************************)
(* The process.  toolBox is the declared tool box T.  builder is the       *)
(* ServerBuilder's config, cli the parsed command line options, bootPc the *)
(* position of main, transports the transports that were started, each     *)
(* with the options and the handshake payload it was created with.  reqs   *)
(* holds the requests being handled: one record per task of the executor,  *)
(* with the position of its handler (pc), the request, the routed tool,    *)
(* the steps the handler has taken and the response.  runResult is what    *)
(* mcp_cli_builder::run has returned to main and what it has printed: the  *)
(* start error on stderr, the long help on stdout.                         *)
(***************************************************************************)
VARIABLES toolBox, builder, cli, bootPc, transports, reqs, runResult

callVars == <<ctKind, ctOut, ctPc, ctRes>>

bootVars == <<builder, cli, bootPc, transports, runResult>>

serverVars == <<toolBox, builder, cli, bootPc, transports, reqs, runResult>>

vars == <<ctKind, ctOut, ctPc, ctRes,
          toolBox, builder, cli, bootPc, transports, reqs, runResult>>

Pending == CallErr(NoCallToolError)

\* no help was printed
NoHelp == [title |-> "", instructions |-> "", tools |-> <<>>]

\* run has not returned
NotReturned ==
    [returned |-> FALSE, ok |-> FALSE, err |-> "", stderr |-> "", help |-> NoHelp]

NoSdkError == [display |-> "", rpc |-> None]

\* what start_stdio / start_server can return: Ok(()) or an McpSdkError,
\* with its Display text and its rpc_error_message()
Started == [ok |-> TRUE, error |-> NoSdkError]

StartFailed(e) == [ok |-> FALSE, error |-> e]

StartErrors ==
    {[display |-> "Address already in use (os error 98)", rpc |-> None],
     [display |-> "transport error", rpc |-> Some("Failed to initialize transport")]}

\* run with every result of the start reported as Ok(())
Run_SwallowError(start) ==
    [returned |-> TRUE, ok |-> TRUE, err |-> "", stderr |-> "", help |-> NoHelp]

\* run: the match on what inner_run returned once the command line parsed
Run(start) ==
    IF start.ok
    THEN [returned |-> TRUE, ok |-> TRUE, err |-> "", stderr |-> "", help |-> NoHelp]
    ELSE [returned |-> TRUE, ok |-> FALSE, err |-> start.error.display,
          stderr |-> IF start.error.rpc.some THEN start.error.rpc.s
                     ELSE start.error.display,
          help |-> NoHelp]

\* the exit status of a main that returns run's Result<(), String>
ExitStatus(result) == IF result.ok THEN "success" ELSE "failure"

Slots == {"r1", "r2"}

NoList == [ok |-> FALSE, tools |-> <<>>, error |-> ""]

IdleRequest ==
    [pc |-> "idle", method |-> "", name |-> "", arguments |-> NoArguments,
     tool |-> NoInstance, steps |-> <<>>, list |-> NoList, call |-> Pending]

NoOptions ==
    [host |-> None, port |-> [some |-> FALSE, n |-> 0],
     timeout |-> [some |-> FALSE, n |-> 0]]

\* no server: the state of the process while one call is examined
NoServer ==
    /\ toolBox = <<>>
    /\ builder = ServerConfigDefault
    /\ cli = NoOptions
    /\ bootPc = "none"
    /\ transports = {}
    /\ reqs = [r \in Slots |-> IdleRequest]
    /\ runResult = NotReturned

\* no call under examination
NoCall ==
    /\ ctKind = "text"
    /\ ctOut = RUnit
    /\ ctPc = "none"
    /\ ctRes = Pending

InitCall ==
    /\ ctKind \in Kinds
    /\ ctOut \in OutputsOf(ctKind)
    /\ ctPc = "ready"
    /\ ctRes = Pending
    /\ NoServer

\* a synchronous tool runs to completion without yielding
CallSync ==
    /\ ctPc = "ready"
    /\ ~IsAsync(ctKind)
    /\ ctRes' = CustomToolCall(ctKind, ctOut)
    /\ ctPc' = "done"
    /\ UNCHANGED <<ctKind, ctOut>>
    /\ UNCHANGED serverVars

\* the future of an asynchronous tool is not ready: the call is suspended
CallAwait ==
    /\ ctPc = "ready"
    /\ IsAsync(ctKind)
    /\ ctPc' = "awaiting"
    /\ UNCHANGED <<ctKind, ctOut, ctRes>>
    /\ UNCHANGED serverVars

\* the future of an asynchronous tool is ready, at once or after a suspension
CallAsyncReady ==
    /\ ctPc \in {"ready", "awaiting"}
    /\ IsAsync(ctKind)
    /\ ctRes' = CustomToolCall(ctKind, ctOut)
    /\ ctPc' = "done"
    /\ UNCHANGED <<ctKind, ctOut>>
    /\ UNCHANGED serverVars

NextCall == CallSync \/ CallAwait \/ CallAsyncReady

SpecCall == InitCall /\ [][NextCall]_vars

(***************************************************************************)
(* The request handler: impl ServerHandler for Handler<T>.                 *)
(***************************************************************************)
\* the requests a client can send
ArgumentMaps ==
    {MapNew,
     {[k |-> "message", v |-> JString("hi")]},
     {[k |-> "message", v |-> JString("")]},
     {[k |-> "value", v |-> JNumber(5)]}}

RequestArguments == {NoArguments} \cup {SomeArguments(m) : m \in ArgumentMaps}

RequestNames == {ToolStruct(id).name : id \in ToolIds} \cup {"unknown_tool"}

\* the handshake payload the runtime of the started transport holds
Details == (CHOOSE t \in transports : TRUE).details

\* the server started by run() with no option given, over the default config
Init ==
    /\ toolBox \in ToolBoxes
    /\ builder = ServerConfigDefault
    /\ cli = NoOptions
    /\ bootPc = "serving"
    /\ transports = {StdioTransport(ServerConfigDefault, toolBox)}
    /\ reqs = [r \in Slots |-> IdleRequest]
    /\ runResult = NotReturned
    /\ NoCall

\* the transport hands a tools/list request to the handler
ReceiveList(r) ==
    /\ bootPc = "serving"
    /\ reqs[r].pc = "idle"
    /\ reqs' = [reqs EXCEPT ![r] = [IdleRequest EXCEPT !.pc = "received",
                                                       !.method = "tools/list"]]
    /\ UNCHANGED <<toolBox, builder, cli, bootPc, transports, runResult>>
    /\ UNCHANGED callVars

\* the transport hands a tools/call request to the handler
ReceiveCall(r, name, arguments) ==
    /\ bootPc = "serving"
    /\ reqs[r].pc = "idle"
    /\ reqs' = [reqs EXCEPT ![r] = [IdleRequest EXCEPT !.pc = "received",
                                                       !.method = "tools/call",
                                                       !.name = name,
                                                       !.arguments = arguments]]
    /\ UNCHANGED <<toolBox, builder, cli, bootPc, transports, runResult>>
    /\ UNCHANGED callVars

\* the capability check with its result dropped (no `?`)
CheckCapabilities_Ignored(r) ==
    LET q == reqs[r] IN
    /\ q.pc = "received"
    /\ reqs' = [reqs EXCEPT ![r] =
          [q EXCEPT !.pc = "checked", !.steps = Append(q.steps, "capability")]]
    /\ UNCHANGED <<toolBox, builder, cli, bootPc, transports, runResult>>
    /\ UNCHANGED callVars

\* runtime.assert_server_request_capabilities(request.method())?
CheckCapabilities(r) ==
    LET q == reqs[r]
        check == AssertServerRequestCapabilities(Details, q.method)
        steps == Append(q.steps, "capability")
    IN  /\ q.pc = "received"
        /\ reqs' = [reqs EXCEPT ![r] =
              IF check.ok
              THEN [q EXCEPT !.pc = "checked", !.steps = steps]
              ELSE IF q.method = "tools/list"
              THEN [q EXCEPT !.pc = "done", !.steps = steps,
                             !.list = [ok |-> FALSE, tools |-> <<>>,
                                       error |-> check.message]]
              ELSE [q EXCEPT !.pc = "done", !.steps = steps,
                             !.call = CallErr(CallToolErrorNew("RpcError",
                                                               check.message))]]
        /\ UNCHANGED <<toolBox, builder, cli, bootPc, transports, runResult>>
        /\ UNCHANGED callVars

\* handle_list_tools_request: Ok(ListToolsResult { tools: T::get_tools() })
ListTools(r) ==
    LET q == reqs[r] IN
    /\ q.pc = "checked"
    /\ q.method = "tools/list"
    /\ reqs' = [reqs EXCEPT ![r] =
          [q EXCEPT !.pc = "done", !.steps = Append(q.steps, "catalog"),
                    !.list = [ok |-> TRUE, tools |-> GetTools(toolBox),
                              error |-> ""]]]
    /\ UNCHANGED <<toolBox, builder, cli, bootPc, transports, runResult>>
    /\ UNCHANGED callVars

\* handle_call_tool_request: T::try_from(request.params).map_err(CallToolError::new)?
RouteCall(r) ==
    LET q == reqs[r]
        route == TryFrom(toolBox, [name |-> q.name, arguments |-> q.arguments])
        steps == q.steps \o route.steps
    IN  /\ q.pc = "checked"
        /\ q.method = "tools/call"
        /\ reqs' = [reqs EXCEPT ![r] =
              CASE route.status = "ok" ->
                      [q EXCEPT !.pc = "routed", !.steps = steps,
                                !.tool = route.tool]
                [] route.status = "err" ->
                      [q EXCEPT !.pc = "done", !.steps = steps,
                                !.call = CallErr(CallToolErrorNew(route.error.source,
                                                                  route.error.message))]
                [] route.status = "panic" ->
                      [q EXCEPT !.pc = "panicked", !.steps = steps]]
        /\ UNCHANGED <<toolBox, builder, cli, bootPc, transports, runResult>>
        /\ UNCHANGED callVars

\* a handler that keeps the routed tool in a field of its own, shared by the
\* requests in flight: the call is made on the tool another request routed
InvokeSync_SharedTool(r) ==
    LET q == reqs[r]
        custom == GetTool(q.tool)
        others == {p \in Slots \ {r} : reqs[p].pc \in {"routed", "awaiting"}}
        shared == IF others = {} THEN custom
                  ELSE GetTool(reqs[CHOOSE p \in others : TRUE].tool)
    IN  /\ q.pc = "routed"
        /\ ~IsAsync(custom.kind)
        /\ reqs' = [reqs EXCEPT ![r] =
              [q EXCEPT !.pc = "done", !.steps = Append(q.steps, "invoke"),
                        !.call = CustomToolCall(shared.kind, ToolCall(shared.tool))]]
        /\ UNCHANGED <<toolBox, builder, cli, bootPc, transports, runResult>>
        /\ UNCHANGED callVars

\* custom_tool.get_tool().call().await of a synchronous tool
InvokeSync(r) ==
    LET q == reqs[r]
        custom == GetTool(q.tool)
    IN  /\ q.pc = "routed"
        /\ ~IsAsync(custom.kind)
        /\ reqs' = [reqs EXCEPT ![r] =
              [q EXCEPT !.pc = "done", !.steps = Append(q.steps, "invoke"),
                        !.call = CustomToolCall(custom.kind, ToolCall(custom.tool))]]
        /\ UNCHANGED <<toolBox, builder, cli, bootPc, transports, runResult>>
        /\ UNCHANGED callVars

\* the future of an asynchronous tool is pending: only this task is suspended
InvokeAwait(r) ==
    LET q == reqs[r]
        custom == GetTool(q.tool)
    IN  /\ q.pc = "routed"
        /\ IsAsync(custom.kind)
        /\ reqs' = [reqs EXCEPT ![r] =
              [q EXCEPT !.pc = "awaiting", !.steps = Append(q.steps, "invoke")]]
        /\ UNCHANGED <<toolBox, builder, cli, bootPc, transports, runResult>>
        /\ UNCHANGED callVars

\* the future of an asynchronous tool is ready
InvokeReady(r) ==
    LET q == reqs[r]
        custom == GetTool(q.tool)
    IN  /\ q.pc \in {"routed", "awaiting"}
        /\ IsAsync(custom.kind)
        /\ reqs' = [reqs EXCEPT ![r] =
              [q EXCEPT !.pc = "done",
                        !.steps = IF q.pc = "routed"
                                  THEN Append(q.steps, "invoke") ELSE q.steps,
                        !.call = CustomToolCall(custom.kind, ToolCall(custom.tool))]]
        /\ UNCHANGED <<toolBox, builder, cli, bootPc, transports, runResult>>
        /\ UNCHANGED callVars

\* the transport sends the response; the handler keeps nothing of the request
Respond(r) ==
    /\ reqs[r].pc = "done"
    /\ reqs' = [reqs EXCEPT ![r] = IdleRequest]
    /\ UNCHANGED <<toolBox, builder, cli, bootPc, transports, runResult>>
    /\ UNCHANGED callVars

\* handle_list_tools_request as one function of the declared tools and the
\* handshake payload
HandleListToolsRequest(toolbox, details) ==
    LET check == AssertServerRequestCapabilities(details, "tools/list") IN
    IF check.ok
    THEN [ok |-> TRUE, tools |-> GetTools(toolbox), error |-> ""]
    ELSE [ok |-> FALSE, tools |-> <<>>, error |-> check.message]

\* handle_call_tool_request as one function of the declared tools, the
\* handshake payload and the request's params
HandleCallToolRequest(toolbox, details, params) ==
    LET check == AssertServerRequestCapabilities(details, "tools/call")
        route == TryFrom(toolbox, params)
        custom == GetTool(route.tool)
    IN  IF ~check.ok
        THEN CallErr(CallToolErrorNew("RpcError", check.message))
        ELSE IF route.status = "ok"
        THEN CustomToolCall(custom.kind, ToolCall(custom.tool))
        ELSE CallErr(CallToolErrorNew(route.error.source, route.error.message))

Next ==
    \E r \in Slots :
        \/ ReceiveList(r)
        \/ \E name \in RequestNames, arguments \in RequestArguments :
              ReceiveCall(r, name, arguments)
        \/ CheckCapabilities(r)
        \/ ListTools(r)
        \/ RouteCall(r)
        \/ InvokeSync(r)
        \/ InvokeAwait(r)
        \/ InvokeReady(r)
        \/ Respond(r)

Spec == Init /\ [][Next]_vars

(***************************************************************************)
(* The calculator example: setup_tools!(pub Tools, [structured(SumTool)]), *)
(* served over stdio, answering tools/call requests for the tool sum.      *)
(***************************************************************************)
MaxValues == 3

\* setup_tools!(pub Tools, [structured(SumTool)])
CalculatorTools == <<"SumTool">>

\* the builder of the calculator's main
CalculatorConfig ==
    [ServerConfigDefault EXCEPT
        !.title = "Calculator MCP Server",
        !.instructions = "A simple calculator server that provides basic arithmetic operations."]

\* finite numbers a client can send: zero, the smallest values, the largest
\* finite values and a value whose sum with the largest overflows
F64Samples == {0, 1, 0 - 1, 2^F64MaxExp, F64Max, 0 - F64Max}

SumArguments ==
    {SomeArguments({[k |-> "values",
                     v |-> JArray([i \in DOMAIN q |-> JNumber(q[i])])]}) :
        q \in SeqsUpTo(F64Samples, MaxValues)}

\* the calculator started by run() with no option given
InitSum ==
    /\ toolBox = CalculatorTools
    /\ builder = CalculatorConfig
    /\ cli = NoOptions
    /\ bootPc = "serving"
    /\ transports = {StdioTransport(CalculatorConfig, CalculatorTools)}
    /\ reqs = [r \in Slots |-> IdleRequest]
    /\ runResult = NotReturned
    /\ NoCall

NextSum ==
    \/ \E arguments \in SumArguments : ReceiveCall("r1", "sum", arguments)
    \/ CheckCapabilities("r1")
    \/ RouteCall("r1")
    \/ InvokeSync("r1")
    \/ Respond("r1")

SpecSum == InitSum /\ [][NextSum]_vars

(***************************************************************************)
(* Bootstrap: main builds a ServerBuilder and hands it to                  *)
(* mcp_cli_builder::run, which parses the command line and starts one      *)
(* transport.                                                              *)
(***************************************************************************)
\* the values main and the command line can give
ConfigTexts == {"", "Calculator MCP Server"}

ConfigTimeouts == {5, 60}

CliHosts == {None, Some(""), Some("0.0.0.0")}

CliPorts == {[some |-> FALSE, n |-> 0], [some |-> TRUE, n |-> 3000]}

CliTimeouts == {[some |-> FALSE, n |-> 0], [some |-> TRUE, n |-> 30]}

StartOutcomes == {Started} \cup {StartFailed(e) : e \in StartErrors}

\* main() has called ServerBuilder::new()
InitBoot ==
    /\ toolBox \in ToolBoxes
    /\ builder = ServerConfigDefault
    /\ cli = NoOptions
    /\ bootPc = "building"
    /\ transports = {}
    /\ reqs = [r \in Slots |-> IdleRequest]
    /\ runResult = NotReturned
    /\ NoCall

\* ServerBuilder::with_name / set_name
WithName(name) ==
    /\ bootPc = "building"
    /\ builder' = [builder EXCEPT !.name = name]
    /\ UNCHANGED <<toolBox, cli, bootPc, transports, reqs, runResult>>
    /\ UNCHANGED callVars

\* ServerBuilder::with_version / set_version
WithVersion(version) ==
    /\ bootPc = "building"
    /\ builder' = [builder EXCEPT !.version = version]
    /\ UNCHANGED <<toolBox, cli, bootPc, transports, reqs, runResult>>
    /\ UNCHANGED callVars

\* ServerBuilder::with_title / set_title
WithTitle(title) ==
    /\ bootPc = "building"
    /\ builder' = [builder EXCEPT !.title = title]
    /\ UNCHANGED <<toolBox, cli, bootPc, transports, reqs, runResult>>
    /\ UNCHANGED callVars

\* ServerBuilder::with_instructions / set_instructions
WithInstructions(instructions) ==
    /\ bootPc = "building"
    /\ builder' = [builder EXCEPT !.instructions = instructions]
    /\ UNCHANGED <<toolBox, cli, bootPc, transports, reqs, runResult>>
    /\ UNCHANGED callVars

\* ServerBuilder::with_timeout / set_timeout
WithTimeout(timeout) ==
    /\ bootPc = "building"
    /\ builder' = [builder EXCEPT !.timeout = timeout]
    /\ UNCHANGED <<toolBox, cli, bootPc, transports, reqs, runResult>>
    /\ UNCHANGED callVars

\* inner_run up to the choice of the transport: the options are parsed
\* (--timeout has the default value 60s) and the timeout is set on the builder
ParseArgs(host, port, timeout) ==
    /\ bootPc = "building"
    /\ cli' = [host |-> host, port |-> port, timeout |-> timeout]
    /\ builder' = [builder EXCEPT
                      !.timeout = IF timeout.some THEN timeout.n
                                  ELSE DefaultTimeoutSecs]
    /\ bootPc' = "parsed"
    /\ UNCHANGED <<toolBox, transports, reqs, runResult>>
    /\ UNCHANGED callVars

\* inner_run: (None, None) => builder.start_stdio::<T>().await.  The
\* transport is created and started once; the start fails, and run returns
\* the error, or the server serves until the start returns
StartStdio(outcome) ==
    /\ bootPc = "parsed"
    /\ ~cli.host.some /\ ~cli.port.some
    /\ transports' = transports \cup {StdioTransport(builder, toolBox)}
    /\ bootPc' = IF outcome.ok THEN "serving" ELSE "failed"
    /\ runResult' = IF outcome.ok THEN runResult ELSE Run(outcome)
    /\ UNCHANGED <<toolBox, builder, cli, reqs>>
    /\ UNCHANGED callVars

\* inner_run: (host, port) => builder.start_server::<T>(
\*     host.as_deref().unwrap_or("127.0.0.1"), port.unwrap_or(DEFAULT_PORT)).await
StartServer(outcome) ==
    /\ bootPc = "parsed"
    /\ cli.host.some \/ cli.port.some
    /\ transports' = transports \cup
          {HyperServer(builder, toolBox,
                       IF cli.host.some THEN cli.host.s ELSE "127.0.0.1",
                       IF cli.port.some THEN cli.port.n ELSE DEFAULT_PORT)}
    /\ bootPc' = IF outcome.ok THEN "serving" ELSE "failed"
    /\ runResult' = IF outcome.ok THEN runResult ELSE Run(outcome)
    /\ UNCHANGED <<toolBox, builder, cli, reqs>>
    /\ UNCHANGED callVars

\* the transport is closed while no request is in flight: the start returns
\* Ok(()) and run returns it
Shutdown ==
    /\ bootPc = "serving"
    /\ \A r \in Slots : reqs[r].pc = "idle"
    /\ bootPc' = "stopped"
    /\ runResult' = Run(Started)
    /\ UNCHANGED <<toolBox, builder, cli, transports, reqs>>
    /\ UNCHANGED callVars

NextBoot ==
    \/ \E name \in {"calculator"} : WithName(name)
    \/ \E version \in {"1.0.0"} : WithVersion(version)
    \/ \E title \in ConfigTexts : WithTitle(title)
    \/ \E instructions \in ConfigTexts : WithInstructions(instructions)
    \/ \E timeout \in ConfigTimeouts : WithTimeout(timeout)
    \/ \E host \in CliHosts, port \in CliPorts, timeout \in CliTimeouts :
          ParseArgs(host, port, timeout)
    \/ \E outcome \in StartOutcomes : StartStdio(outcome)
    \/ \E outcome \in StartOutcomes : StartServer(outcome)
    \/ ReceiveList("r1")
    \/ CheckCapabilities("r1")
    \/ ListTools("r1")
    \/ Respond("r1")
    \/ Shutdown

SpecBoot == InitBoot /\ [][NextBoot]_vars

(***************************************************************************)
(* The long help: inner_run builds the numbered list of the tools before   *)
(* it parses the command line, and --help prints it.  The start of an      *)
(* entry, the number and ". ", is kept as its bytes (head), since the       *)
(* entries are sorted as strings; the heads of two entries always differ   *)
(* at some byte, so the rest of an entry never decides the order.          *)
(***************************************************************************)
MaxHelpTools == 11

\* structs a tool box can list: those of the tests and examples, and more
HelpToolIds ==
    <<"ExampleTool", "AnotherTool", "GreetTool", "SumTool", "tool_e", "tool_f",
      "tool_g", "tool_h", "tool_i", "tool_j", "tool_k", "tool_l">>

HelpToolBoxes ==
    {SubSeq(HelpToolIds, 1, n) :
        n \in 0..(IF MaxHelpTools < Len(HelpToolIds)
                  THEN MaxHelpTools ELSE Len(HelpToolIds))}

\* the bytes of format!("{}", n)
RECURSIVE Digits(_)
Digits(n) ==
    IF n < 10 THEN <<48 + n>> ELSE Digits(n \div 10) \o <<48 + (n % 10)>>

\* format!("{}. {underlined}{}{underlined:#}..", i + 1, title or name, ..)
ToolNameEntry(i, tool) ==
    [head |-> Digits(i) \o <<46, 32>>,
     title |-> IF tool.title.some THEN tool.title.s ELSE tool.name,
     description |-> IF tool.description.some THEN tool.description.s
                     ELSE "no description available"]

\* the order of str: byte by byte, a proper prefix first
RECURSIVE StrLess(_, _)
StrLess(a, b) ==
    IF a = <<>> THEN b # <<>>
    ELSE IF b = <<>> THEN FALSE
    ELSE IF Head(a) # Head(b) THEN Head(a) < Head(b)
    ELSE StrLess(Tail(a), Tail(b))

\* Vec<String>::sort
RECURSIVE SortSet(_)
SortSet(S) ==
    IF S = {} THEN <<>>
    ELSE LET least == CHOOSE x \in S :
                         \A y \in S \ {x} : StrLess(x.head, y.head)
         IN  <<least>> \o SortSet(S \ {least})

Sort(entries) == SortSet({entries[i] : i \in DOMAIN entries})

\* inner_run: tool_names and the after_long_help text
LongHelp(config, toolbox) ==
    LET tools == GetTools(toolbox)
        tool_names == [i \in DOMAIN tools |-> ToolNameEntry(i, tools[i])]
    IN  [title |-> config.title, instructions |-> config.instructions,
         tools |-> Sort(tool_names)]

\* main() has called ServerBuilder::new()
InitHelp ==
    /\ toolBox \in HelpToolBoxes
    /\ builder = ServerConfigDefault
    /\ cli = NoOptions
    /\ bootPc = "building"
    /\ transports = {}
    /\ reqs = [r \in Slots |-> IdleRequest]
    /\ runResult = NotReturned
    /\ NoCall

\* run with --help: try_get_matches_from returns the help as a clap error
\* and clap_err.exit() prints it and ends the process
Help ==
    /\ bootPc = "building"
    /\ runResult' = [runResult EXCEPT !.help = LongHelp(builder, toolBox)]
    /\ bootPc' = "exited"
    /\ UNCHANGED <<toolBox, builder, cli, transports, reqs>>
    /\ UNCHANGED callVars

NextHelp ==
    \/ \E name \in {"test-server"} : WithName(name)
    \/ \E version \in {"1.0.0"} : WithVersion(version)
    \/ \E title \in ConfigTexts : WithTitle(title)
    \/ \E instructions \in ConfigTexts : WithInstructions(instructions)
    \/ \E timeout \in ConfigTimeouts : WithTimeout(timeout)
    \/ Help

SpecHelp == InitHelp /\ [][NextHelp]_vars

(***************************************************************************)
(* Properties of CustomTool::call, checked under SpecCall.                 *)
(***************************************************************************)
Payload == ctRes.result.structured_content.map

IsTextResult(res) ==
    /\ res.ok
    /\ Len(res.result.content) = 1
    /\ ~res.result.structured_content.some

IsStructuredResult(res) ==
    /\ res.ok
    /\ res.result.content = <<>>
    /\ res.result.structured_content.some

IsErrorResult(res) == ~res.ok /\ res.error.source # ""

\* C1: a structured tool (Structured, AsyncStructured) whose output serializes
\* returns as structured payload the serialized object itself when the value
\* is a JSON object, and the one-key object {"result": value} for any other
\* JSON value (scalar, array, null).
C1_StructuredPayload ==
    (ctPc = "done" /\ ~IsText(ctKind) /\ ~SerializeFails(ctOut)) =>
        LET v == ToValue(ctOut) IN
        /\ ctRes.ok
        /\ ctRes.result.structured_content.some
        /\ v.t = "Object" => Payload = v.fields
        /\ v.t # "Object" => Payload = {[k |-> "result", v |-> v]}

\* an asynchronous structured tool returned the scalar 5: payload {"result": 5}
C1_Witness ==
    /\ ctPc = "done"
    /\ ctKind = "async_structured"
    /\ ctOut = RInt(5)
    /\ Payload = {[k |-> "result", v |-> JNumber(5)]}

\* C5: for each of the four tool shapes, a tool that returns the failure side
\* of a success/failure pair makes CustomTool::call return an Error carrying
\* the failure's message, and no TextResult and no StructuredResult.
C5_BusinessFailureIsError ==
    (ctPc = "done" /\ ctOut.r = "Err") =>
        /\ IsErrorResult(ctRes)
        /\ ctRes.error.message = ctOut.items[1].s

\* C6: a text tool (Text, AsyncText) returning a bare string or the success
\* side of a pair yields a TextResult with exactly that string; returning the
\* failure side yields an Error with the failure's message and no text content.
C6_TextCoercion ==
    (ctPc = "done" /\ IsText(ctKind)) =>
        /\ ctOut.r \in StrTypes =>
              /\ IsTextResult(ctRes)
              /\ ctRes.result.content[1].text = ctOut.s
        /\ ctOut.r = "Ok" =>
              /\ IsTextResult(ctRes)
              /\ ctRes.result.content[1].text = ctOut.items[1].s
        /\ ctOut.r = "Err" =>
              /\ IsErrorResult(ctRes)
              /\ ctRes.error.message = ctOut.items[1].s
              /\ ctRes.result.content = <<>>

\* a synchronous text tool returned Err("hi"): an Error "hi", no text
C6_Witness ==
    /\ ctPc = "done"
    /\ ctKind = "text"
    /\ ctOut = RErr(RStr("&str", "hi"))
    /\ ~ctRes.ok
    /\ ctRes.error.message = "hi"

\* C7: a CustomTool::call whose callable returns ends with exactly one of a
\* TextResult (text, no structured payload), a StructuredResult (an object
\* payload, no text) and an Error; a structured output that fails to
\* serialize ends with the Error carrying the serialization failure's text.
C7_ExactlyOneOutcome ==
    /\ ctPc # "done" => ENABLED NextCall
    /\ ctPc = "done" =>
          /\ Cardinality({i \in 1..3 :
                \/ i = 1 /\ IsTextResult(ctRes)
                \/ i = 2 /\ IsStructuredResult(ctRes)
                \/ i = 3 /\ IsErrorResult(ctRes)}) = 1
          /\ (~IsText(ctKind) /\ SerializeFails(ctOut)) =>
                /\ IsErrorResult(ctRes)
                /\ ctRes.error.message = "key must be a string"

\* a structured tool returned a struct holding a map with tuple keys
C7_Witness ==
    /\ ctPc = "done"
    /\ ctKind = "structured"
    /\ ctOut = RStruct({[k |-> "a", v |-> RTupleMap(<<RInt(5)>>)]})
    /\ IsErrorResult(ctRes)

(***************************************************************************)
(* Properties of the request handler, checked under Spec.                  *)
(***************************************************************************)
\* the handler of r has passed its capability check and its routing
PastRouting(q) ==
    /\ q.method = "tools/call"
    /\ \/ q.pc \in {"routed", "awaiting", "panicked"}
       \/ q.pc = "done" /\ Len(q.steps) > 1

DeclaredNames == {ToolStruct(toolBox[i]).name : i \in DOMAIN toolBox}

\* the listed tool a name resolves to: the first one carrying it
Resolved(name) ==
    toolBox[CHOOSE i \in DOMAIN toolBox :
                /\ ToolStruct(toolBox[i]).name = name
                /\ \A j \in DOMAIN toolBox :
                      ToolStruct(toolBox[j]).name = name => i <= j]

\* the arguments (an omitted map read as the empty one) fit the input shape
Fits(id, arguments) ==
    LET t == ToolStruct(id)
        given == {e \in arguments.map : e.k = t.field}
    IN  /\ t.required => given # {}
        /\ \A e \in given : e.v.t = t.type \/ (~t.required /\ e.v.t = "Null")

IsUnknownToolError(q) ==
    q.pc = "done" /\ ~q.call.ok /\ q.call.error.source = "UnknownTool"

IsInvalidParamsError(q) ==
    q.pc = "done" /\ ~q.call.ok /\ q.call.error.source = "serde_json::Error"

IsCapabilityError(q) ==
    /\ q.pc = "done"
    /\ q.steps = <<"capability">>
    /\ q.tool = NoInstance
    /\ q.method = "tools/list" => ~q.list.ok /\ q.list.error # ""
    /\ q.method = "tools/call" => ~q.call.ok /\ q.call.error.source = "RpcError"

\* C2: in handle_list_tools_request and handle_call_tool_request the
\* capability check is the first step, and a request whose check fails ends
\* with a capability error without a catalog read, a routing, a
\* deserialization or a tool invocation.
C2_CapabilityFirst ==
    \A r \in Slots :
        LET q == reqs[r] IN
        /\ q.steps # <<>> => q.steps[1] = "capability"
        /\ q.pc \notin {"idle", "received"} => q.steps # <<>>
        /\ (/\ q.pc \notin {"idle", "received"}
            /\ ~AssertServerRequestCapabilities(Details, q.method).ok)
              => IsCapabilityError(q)

\* a tools/call request to a server without tools ended in the capability error
C2_Witness ==
    /\ toolBox = <<>>
    /\ reqs["r1"].method = "tools/call"
    /\ reqs["r1"].name = "example_tool"
    /\ IsCapabilityError(reqs["r1"])
    /\ reqs["r2"].method = "tools/list"
    /\ IsCapabilityError(reqs["r2"])

\* C3: routing resolves the tool by name before it deserializes the
\* arguments: a name that no listed tool carries gives the unknown-tool error
\* whatever the arguments, a listed name with arguments that do not fit the
\* resolved tool's input gives the invalid-parameters error, the two errors
\* differ, and neither invokes a tool.
C3_RouteByNameFirst ==
    /\ \A r \in Slots :
          LET q == reqs[r] IN
          PastRouting(q) =>
              /\ q.name \notin DeclaredNames =>
                    /\ IsUnknownToolError(q)
                    /\ q.steps = <<"capability", "resolve">>
              /\ (/\ q.name \in DeclaredNames
                  /\ ~Fits(Resolved(q.name), q.arguments))
                    => /\ IsInvalidParamsError(q)
                       /\ q.steps = <<"capability", "resolve", "deserialize">>
              /\ \A i \in DOMAIN q.steps :
                    q.steps[i] = "deserialize" =>
                        \E j \in 1..(i - 1) : q.steps[j] = "resolve"
    /\ \A r, p \in Slots :
          (IsUnknownToolError(reqs[r]) /\ IsInvalidParamsError(reqs[p]))
              => reqs[r].call.error # reqs[p].call.error

\* one request named no listed tool, one gave a number to ExampleTool's
\* message: the unknown-tool and the invalid-parameters error
C3_Witness ==
    /\ toolBox = <<"ExampleTool">>
    /\ reqs["r1"].name = "unknown_tool"
    /\ reqs["r1"].arguments = SomeArguments({[k |-> "value", v |-> JNumber(5)]})
    /\ IsUnknownToolError(reqs["r1"])
    /\ reqs["r2"].name = "example_tool"
    /\ reqs["r2"].arguments = SomeArguments({[k |-> "value", v |-> JNumber(5)]})
    /\ IsInvalidParamsError(reqs["r2"])

\* C4: a call request that omits its arguments has the outcome of the call
\* request with the same name and the empty object as arguments: the same
\* routed tool and the same result or error.
C4_OmittedIsEmpty ==
    /\ \A r \in Slots :
          reqs[r].arguments = NoArguments => reqs[r].pc # "panicked"
    /\ \A r, p \in Slots :
          (/\ PastRouting(reqs[r]) /\ PastRouting(reqs[p])
           /\ reqs[r].name = reqs[p].name
           /\ reqs[r].arguments = NoArguments
           /\ reqs[p].arguments = SomeArguments(MapNew))
              => /\ reqs[r].tool = reqs[p].tool
                 /\ (reqs[r].pc = "done" /\ reqs[p].pc = "done")
                       => reqs[r].call = reqs[p].call

\* greet was called without arguments and with {}: both were routed to
\* GreetTool and ended in its business error
C4_Witness ==
    /\ reqs["r1"].method = "tools/call" /\ reqs["r2"].method = "tools/call"
    /\ reqs["r1"].name = "greet" /\ reqs["r2"].name = "greet"
    /\ reqs["r1"].arguments = NoArguments
    /\ reqs["r2"].arguments = SomeArguments(MapNew)
    /\ reqs["r1"].pc = "done" /\ reqs["r2"].pc = "done"
    /\ reqs["r1"].tool.id = "GreetTool"
    /\ reqs["r1"].call = reqs["r2"].call
    /\ reqs["r1"].call.error.message = "message is required"

\* C8: the catalog holds exactly one descriptor per declared tool and no two
\* descriptors with the same name, is the same sequence on every call, and
\* handle_list_tools_request returns it unchanged once the check has passed.
C8_Catalog ==
    /\ \A r \in Slots :
          LET q == reqs[r] IN
          (q.method = "tools/list" /\ q.pc = "done" /\ q.list.ok) =>
              /\ Len(q.list.tools) = Len(toolBox)
              /\ \A i \in DOMAIN toolBox : q.list.tools[i] = ToolDescriptor(toolBox[i])
              /\ \A i, j \in DOMAIN q.list.tools :
                    i # j => q.list.tools[i].name # q.list.tools[j].name
    /\ \A r, p \in Slots :
          (/\ reqs[r].method = "tools/list" /\ reqs[p].method = "tools/list"
           /\ reqs[r].pc = "done" /\ reqs[p].pc = "done"
           /\ reqs[r].list.ok /\ reqs[p].list.ok)
              => reqs[r].list.tools = reqs[p].list.tools

(***************************************************************************)
(* Properties of the bootstrap, checked under SpecBoot.                    *)
(***************************************************************************)
\* C9: in the handshake payload built by get_server_details the tools
\* capability is present if and only if the catalog is not empty, in both
\* transport modes and for every server configuration.
C9_ToolsCapability ==
    \A t \in transports :
        t.details.capabilities.tools.some <=> Len(toolBox) > 0

\* an http server without tools has no tools capability
C9_Witness ==
    /\ bootPc = "serving"
    /\ toolBox = <<>>
    /\ builder.title = "Calculator MCP Server"
    /\ \E t \in transports :
          t.mode = "http" /\ ~t.details.capabilities.tools.some

\* C10 as claimed: with neither --host nor --port only the stdio transport is
\* started; with at least one of them only the network transport, bound to
\* the given host, or 127.0.0.1 when no host is given, and to the given port,
\* or 8080 when no port is given; never both transports.
C10_TransportChoice_Claimed ==
    /\ Cardinality(transports) <= 1
    /\ \A t \in transports :
          IF ~cli.host.some /\ ~cli.port.some
          THEN t.mode = "stdio"
          ELSE /\ t.mode = "http"
               /\ t.host = IF cli.host.some THEN cli.host.s ELSE "127.0.0.1"
               /\ t.port = IF cli.port.some THEN cli.port.n ELSE 8080

\* C10 as amended: the network transport is bound to the given host when it
\* is given and not empty, and to 127.0.0.1 when no host or the empty host is
\* given; the rest as claimed.
C10_TransportChoice ==
    /\ Cardinality(transports) <= 1
    /\ bootPc \in {"serving", "failed"} => Cardinality(transports) = 1
    /\ \A t \in transports :
          IF ~cli.host.some /\ ~cli.port.some
          THEN t.mode = "stdio"
          ELSE /\ t.mode = "http"
               /\ t.host = IF cli.host.some /\ cli.host.s # ""
                           THEN cli.host.s ELSE "127.0.0.1"
               /\ t.port = IF cli.port.some THEN cli.port.n ELSE 8080

\* only --port 3000 was given: the network transport on 127.0.0.1:3000
C10_Witness ==
    /\ bootPc = "serving"
    /\ ~cli.host.some
    /\ cli.port = [some |-> TRUE, n |-> 3000]
    /\ \E t \in transports :
          t.mode = "http" /\ t.host = "127.0.0.1" /\ t.port = 3000

\* C11: the request timeout handed to the transport is the --timeout value
\* when the option was given, and otherwise the timeout the builder was
\* configured with before run (60 seconds unless with_timeout / set_timeout
\* changed it), in stdio mode and in network mode alike.
C11_ConfiguredTimeout ==
    [][/\ (bootPc = "building" /\ bootPc' = "parsed")
            => builder'.timeout = IF cli'.timeout.some THEN cli'.timeout.n
                                  ELSE builder.timeout
       /\ (bootPc = "parsed" /\ bootPc' # "parsed")
            => \A t \in transports' : t.timeout = builder.timeout]_vars

\* the shape that differs from kind in synchrony only
Counterpart(kind) ==
    CASE kind = "text" -> "async_text"
      [] kind = "async_text" -> "text"
      [] kind = "structured" -> "async_structured"
      [] kind = "async_structured" -> "structured"

\* C12: output coercion does not depend on synchrony: for every output value
\* a Text tool and an AsyncText tool returning it yield the same call result
\* or error, and so do a Structured tool and an AsyncStructured tool; a
\* finished call holds what its counterpart in synchrony yields for the same
\* output, whether or not the call was suspended.
C12_SynchronyIndependent ==
    /\ \A out \in TextOutputs :
          CustomToolCall("text", out) = CustomToolCall("async_text", out)
    /\ \A out \in StructuredOutputs :
          CustomToolCall("structured", out) = CustomToolCall("async_structured", out)
    /\ ctPc = "done" => ctRes = CustomToolCall(Counterpart(ctKind), ctOut)

\* an asynchronous structured call of a tool returning a struct has finished
\* with the struct's map as payload, as the synchronous impl gives it
C12_Witness ==
    /\ ctPc = "done"
    /\ ctKind = "async_structured"
    /\ ctOut = RStruct({[k |-> "a", v |-> RInt(5)], [k |-> "b", v |-> RUnit]})
    /\ ctRes.ok
    /\ ctRes.result.structured_content.map =
          {[k |-> "a", v |-> JNumber(5)], [k |-> "b", v |-> JNull]}
    /\ ctRes = CustomStructuredToolCall(ctOut)

(***************************************************************************)
(* Independence of the requests, checked under Spec.                       *)
(***************************************************************************)
\* the params of the request in slot r
ParamsOf(r) == [name |-> reqs[r].name, arguments |-> reqs[r].arguments]

\* C13: requests are handled independently.  Under every interleaving of the
\* steps of the requests in flight, a finished call holds the response the
\* handler gives to its own tool name and arguments alone, and a finished
\* list holds the full catalog (or the capability error of a server without
\* tools); every free task can take a new request and every finished
\* request can be answered, whatever the other requests did, and no request
\* in flight is stuck: it is at a position of the handler whose next step
\* (check, list or route, invoke, resume) can be taken, never in a panic; and
\* a step of one request, failed or not, changes neither another request nor
\* the tool box nor the transport.
C13_Independent ==
    /\ [](\A r \in Slots :
             /\ (reqs[r].pc = "done" /\ reqs[r].method = "tools/call")
                   => reqs[r].call =
                         HandleCallToolRequest(toolBox, Details, ParamsOf(r))
             /\ (reqs[r].pc = "done" /\ reqs[r].method = "tools/list")
                   => reqs[r].list = HandleListToolsRequest(toolBox, Details)
             /\ reqs[r].pc = "idle" => ENABLED ReceiveList(r)
             /\ reqs[r].pc = "done" => ENABLED Respond(r)
             /\ reqs[r].pc \in {"idle", "received", "checked", "routed",
                                "awaiting", "done"}
             /\ reqs[r].pc = "checked"
                   => reqs[r].method \in {"tools/list", "tools/call"}
             /\ reqs[r].pc \in {"routed", "awaiting"}
                   => \E i \in DOMAIN toolBox : reqs[r].tool.id = toolBox[i]
             /\ reqs[r].pc = "awaiting" => IsAsync(GetTool(reqs[r].tool).kind))
    /\ [][/\ \A r, p \in Slots :
               (reqs'[r] # reqs[r] /\ p # r) => reqs'[p] = reqs[p]
          /\ <<toolBox, builder, cli, bootPc, transports>>' =
                <<toolBox, builder, cli, bootPc, transports>>]_vars

\* one request has ended in a serialization error while another, sent with
\* the same tool name and other arguments, is suspended in its asynchronous
\* tool and keeps the tool it was routed to
C13_Witness ==
    /\ reqs["r1"].pc = "done"
    /\ reqs["r1"].name = "example_tool"
    /\ ~reqs["r1"].call.ok
    /\ reqs["r1"].call.error = CallToolErrorNew("ToolError", "key must be a string")
    /\ reqs["r2"].pc = "awaiting"
    /\ reqs["r2"].name = "example_tool"
    /\ reqs["r2"].tool = [id |-> "ExampleToolV2", has |-> TRUE, n |-> 0, s |-> "hi",
                        items |-> <<>>]

(***************************************************************************)
(* Properties of the example sum tool, checked under SpecSum.              *)
(***************************************************************************)
\* the numbers of the request in slot r, as SumTool's values
ValuesOf(r) ==
    LET items == (CHOOSE e \in reqs[r].arguments.map : e.k = "values").v.items
    IN  [i \in DOMAIN items |-> F64(items[i].n)]

\* C14: for every list of finite numbers given to the sum tool, the call
\* succeeds with a structured payload and no text; if some left-to-right
\* running partial sum is not finite the payload is exactly
\* {"error": "Infinite value detected"}, with no sum key, and otherwise it is
\* exactly {"sum": total}, with no error key (total is 0 for the empty list).
C14_SumPayload ==
    reqs["r1"].pc = "done" =>
        LET values == ValuesOf("r1")
            res == reqs["r1"].call
            payload == res.result.structured_content.map
        IN  /\ IsStructuredResult(res)
            /\ Cardinality({e \in payload : e.k \in {"sum", "error"}}) = 1
            /\ IF \E k \in 1..Len(values) : ~IsFinite(RunningSum(values, k))
               THEN payload = {[k |-> "error",
                                v |-> JString("Infinite value detected")]}
               ELSE payload = {[k |-> "sum",
                                v |-> JNumber(RunningSum(values, Len(values)).v)]}
            /\ values = <<>> => payload = {[k |-> "sum", v |-> JNumber(0)]}

\* the largest finite number twice and then its negative: the second partial
\* sum overflows, and the payload is the error alone
C14_Witness ==
    /\ reqs["r1"].pc = "done"
    /\ ValuesOf("r1") = <<F64(F64Max), F64(F64Max), F64(0 - F64Max)>>
    /\ reqs["r1"].call.ok
    /\ reqs["r1"].call.result.structured_content.map =
          {[k |-> "error", v |-> JString("Infinite value detected")]}

(***************************************************************************)
(* Failure of the bootstrap, checked under SpecBoot.                       *)
(***************************************************************************)
\* C15: if the chosen transport fails to bind or initialize, the bootstrap
\* ends in a terminal error state: the start was attempted once, on the
\* chosen transport alone (no retry, no fallback to the other transport), no
\* request was or will be served and no further step of the process is
\* possible, and run has returned an Err carrying the description of the
\* start error, printed to stderr, so that main exits with a failure status.
\* run returns an Err in no other case.
C15_BootstrapFailureTerminal ==
    /\ bootPc = "failed" =>
          /\ Cardinality(transports) = 1
          /\ \A t \in transports :
                t.mode = IF ~cli.host.some /\ ~cli.port.some
                         THEN "stdio" ELSE "http"
          /\ \A r \in Slots : reqs[r] = IdleRequest
          /\ ~ENABLED NextBoot
          /\ runResult.returned
          /\ ~runResult.ok
          /\ \E e \in StartErrors :
                /\ runResult.err = e.display
                /\ runResult.stderr = IF e.rpc.some THEN e.rpc.s ELSE e.display
          /\ ExitStatus(runResult) = "failure"
    /\ (runResult.returned /\ ~runResult.ok) => bootPc = "failed"
    /\ (\E r \in Slots : reqs[r].pc # "idle") => bootPc = "serving"

\* the network transport on 127.0.0.1:3000 failed to bind: the address is in
\* use, and run returned that description
C15_Witness ==
    /\ bootPc = "failed"
    /\ cli.port = [some |-> TRUE, n |-> 3000]
    /\ \E t \in transports : t.mode = "http" /\ t.port = 3000
    /\ runResult = [returned |-> TRUE, ok |-> FALSE,
                    err |-> "Address already in use (os error 98)",
                    stderr |-> "Address already in use (os error 98)",
                    help |-> NoHelp]

(***************************************************************************)
(* Properties of the long help, checked under SpecHelp.                    *)
(***************************************************************************)
\* C16: for every number of declared tools the tool list of the long help
\* has one entry per descriptor of the catalog, the i-th entry carries the
\* number i and the title (or the name) of the i-th descriptor, so that the
\* entries appear in ascending order of their numbers 1, 2, ..., n.
C16_HelpListOrder ==
    bootPc = "exited" =>
        LET catalog == GetTools(toolBox)
            list == runResult.help.tools
        IN  /\ Len(list) = Len(catalog)
            /\ \A i \in DOMAIN list :
                  /\ list[i].head = Digits(i) \o <<46, 32>>
                  /\ list[i].title = IF catalog[i].title.some
                                     THEN catalog[i].title.s
                                     ELSE catalog[i].name

====
